---- MODULE Spec2Model ----
(***************************************************************************)
(* Model of pytopomat/workflows/core.py, class Z2PackWF: the reciprocal    *)
(* point group of a structure, the equivalence of the six TRIM planes of   *)
(* the Brillouin zone under it, the choice of the planes to compute, and   *)
(* the workflow graph get_wf assembles.                                    *)
(*                                                                         *)
(* Numbers.  Symmetry operations in a fractional basis are integer 3x3     *)
(* matrices; a matrix is a tuple of three rows.  A TRIM point has its      *)
(* coordinates in {0.0, 0.5}; a coordinate is held in units of one half    *)
(* (0 for 0.0, 1 for 0.5), so "% 1.0" of the code is "% 2" here.           *)
(***************************************************************************)
EXTENDS Integers, Sequences, FiniteSets, TLC

\* ------------------------------------------------------------------ bounds
\* dimensionality classifications range over 0..MaxDim
MaxDim == 3
\* a stubbed equivalence map records at most MaxEntries pairs (plane, other)
MaxEntries == 2
\* a point list handed to _is_permutation_eq on its own has at most MaxLen points
MaxLen == 2

\* ------------------------------------------------------- linear algebra
Idx == 1..3

Mat(f) == << <<f[1, 1], f[1, 2], f[1, 3]>>,
             <<f[2, 1], f[2, 2], f[2, 3]>>,
             <<f[3, 1], f[3, 2], f[3, 3]>> >>

\* np.dot of two 3x3 matrices
Dot(X, Y) ==
    LET e[i \in Idx, j \in Idx] == X[i][1] * Y[1][j] + X[i][2] * Y[2][j] + X[i][3] * Y[3][j]
    IN  Mat(e)

\* np.dot of a matrix and a point
DotPt(X, p) ==
    << X[1][1] * p[1] + X[1][2] * p[2] + X[1][3] * p[3],
       X[2][1] * p[1] + X[2][2] * p[2] + X[2][3] * p[3],
       X[3][1] * p[1] + X[3][2] * p[2] + X[3][3] * p[3] >>

\* np.eye(3)
Eye ==
    LET e[i \in Idx, j \in Idx] == IF i = j THEN 1 ELSE 0
    IN  Mat(e)

\* R = -1 * np.eye(3)
R ==
    LET e[i \in Idx, j \in Idx] == IF i = j THEN -1 ELSE 0
    IN  Mat(e)

Det(X) ==
      X[1][1] * (X[2][2] * X[3][3] - X[2][3] * X[3][2])
    - X[1][2] * (X[2][1] * X[3][3] - X[2][3] * X[3][1])
    + X[1][3] * (X[2][1] * X[3][2] - X[2][2] * X[3][1])

Succ3(i) == (i % 3) + 1

\* adjugate: Adj(X) = Det(X) * inverse of X
Adj(X) ==
    LET e[i \in Idx, j \in Idx] ==
            X[Succ3(j)][Succ3(i)] * X[Succ3(Succ3(j))][Succ3(Succ3(i))]
          - X[Succ3(j)][Succ3(Succ3(i))] * X[Succ3(Succ3(j))][Succ3(i)]
    IN  Mat(e)

\* exact quotient n / d of integers, d /= 0, d dividing n
Quot(n, d) ==
    IF (n >= 0) = (d > 0)
    THEN (IF n >= 0 THEN n ELSE -n) \div (IF d > 0 THEN d ELSE -d)
    ELSE -((IF n >= 0 THEN n ELSE -n) \div (IF d > 0 THEN d ELSE -d))

\* np.around(np.dot(A, np.dot(op, Ainv)), decimals=2).  A = inv(W).V is the
\* metric tensor of the lattice up to the factor 1/(2 pi), which cancels in
\* A.op.Ainv; gram is that metric tensor.  For an operation of the lattice the
\* product is an integer matrix, which the rounding leaves as it is.
ToRecip(gram, op) ==
    LET P == Dot(gram, Dot(op, Adj(gram)))
        d == Det(gram)
        e[i \in Idx, j \in Idx] == Quot(P[i][j], d)
    IN  Mat(e)

\* ------------------------------------------------- the input structures
\* All 3x3 matrices with one entry +1 or -1 in every row and column: the 48
\* operations of the full cubic point group m-3m in a primitive cubic basis.
Perms == { p \in [Idx -> Idx] : \A i, j \in Idx : i # j => p[i] # p[j] }

Signs == [Idx -> {-1, 1}]

SignedPerm(p, s) ==
    LET e[i \in Idx, j \in Idx] == IF j = p[i] THEN s[i] ELSE 0
    IN  Mat(e)

CubicOps == { SignedPerm(p, s) : p \in Perms, s \in Signs }

RECURSIVE SetToSeq(_)
SetToSeq(S) ==
    IF S = {} THEN <<>>
    ELSE LET x == CHOOSE y \in S : TRUE
         IN  <<x>> \o SetToSeq(S \ {x})

\* sga.get_symmetry_operations() lists the identity first
OpList(S) == <<Eye>> \o SetToSeq(S \ {Eye})

Diag(a, b, c) == << <<a, 0, 0>>, <<0, b, 0>>, <<0, 0, c>> >>

\* metric tensors (lattice.matrix . lattice.matrix^T, in units that keep them
\* integer) of a cubic, a tetragonal, an orthorhombic and a hexagonal lattice
GramCubic == Diag(1, 1, 1)
GramTetra == Diag(1, 1, 2)
GramOrtho == Diag(1, 2, 3)
GramHex == << <<2, -1, 0>>, <<-1, 2, 0>>, <<0, 0, 3>> >>

\* threefold and sixfold rotation about c in the hexagonal fractional basis
Rot3 == << <<0, -1, 0>>, <<1, -1, 0>>, <<0, 0, 1>> >>
Rot6 == << <<1, -1, 0>>, <<1, 0, 0>>, <<0, 0, 1>> >>

Transpose(X) ==
    LET e[i \in Idx, j \in Idx] == X[j][i]
    IN  Mat(e)

\* primitive lattice vectors (the rows of lattice.matrix, in units of half the
\* cubic cell edge) of the face-centred and the body-centred cubic lattice
MatrixFcc == << <<0, 1, 1>>, <<1, 0, 1>>, <<1, 1, 0>> >>
MatrixBcc == << <<-1, 1, 1>>, <<1, -1, 1>>, <<1, 1, -1>> >>

\* the cubic point group in the fractional basis of lattice.matrix M: a
\* cartesian operation S is inv(M^T).S.M^T there
FracCubicOps(M) ==
    { LET P == Dot(Adj(Transpose(M)), Dot(S, Transpose(M)))
          e[i \in Idx, j \in Idx] == Quot(P[i][j], Det(M))
      IN  Mat(e) : S \in CubicOps }

\* A structure is seen through lattice.matrix (its metric tensor) and the
\* rotation matrices SpacegroupAnalyzer finds for it.
Structures ==
    { [name |-> "m-3m", gram |-> GramCubic, ops |-> OpList(CubicOps)],
      [name |-> "m-3m fcc", gram |-> Dot(MatrixFcc, Transpose(MatrixFcc)),
       ops |-> OpList(FracCubicOps(MatrixFcc))],
      [name |-> "m-3m bcc", gram |-> Dot(MatrixBcc, Transpose(MatrixBcc)),
       ops |-> OpList(FracCubicOps(MatrixBcc))],
      [name |-> "432", gram |-> GramCubic,
       ops |-> OpList({ m \in CubicOps : Det(m) = 1 })],
      [name |-> "4/mmm", gram |-> GramTetra,
       ops |-> OpList({ m \in CubicOps : m[3][1] = 0 /\ m[3][2] = 0 })],
      [name |-> "mmm", gram |-> GramOrtho,
       ops |-> OpList({ m \in CubicOps : \A i, j \in Idx : i # j => m[i][j] = 0 })],
      [name |-> "2", gram |-> GramOrtho, ops |-> <<Eye, Diag(-1, -1, 1)>>],
      [name |-> "-1", gram |-> GramOrtho, ops |-> <<Eye, R>>],
      [name |-> "1", gram |-> GramOrtho, ops |-> <<Eye>>],
      [name |-> "3", gram |-> GramHex, ops |-> <<Eye, Rot3, Dot(Rot3, Rot3)>>],
      [name |-> "6", gram |-> GramHex,
       ops |-> <<Eye, Rot6, Rot3, Diag(-1, -1, 1),
                 Dot(Rot3, Rot3), Dot(Rot3, Dot(Rot3, Rot6))>>] }

\* ------------------------------- _get_reciprocal_point_group_nonmagnetic
Contains(list, x) == \E k \in 1..Len(list) : list[k] = x

\* a variant of RpgStep that appends op only when its coset partner is new too
RpgStepBothNew(acc, op) ==
    LET new == ~Contains(acc, op)
        new_coset == ~Contains(acc, Dot(R, op))
    IN  IF new /\ new_coset THEN acc \o <<op, Dot(R, op)>> ELSE acc

\* one pass of the loop over isomorphic_point_group: op is already transformed
RpgStep(acc, op) ==
    LET new == ~Contains(acc, op)
        new_coset == ~Contains(acc, Dot(R, op))
        a1 == IF new THEN Append(acc, op) ELSE acc
    IN  IF new_coset THEN Append(a1, Dot(R, op)) ELSE a1

RECURSIVE RpgLoop(_, _, _)
RpgLoop(gram, ops, acc) ==
    IF ops = <<>> THEN acc
    ELSE LET next == RpgStep(acc, ToRecip(gram, Head(ops)))
             rest == Tail(ops)
         \* (the test is always true: it makes TLC evaluate next before the call)
         IN  IF Len(next) + Len(rest) >= 0 THEN RpgLoop(gram, rest, next) ELSE acc

ReciprocalPointGroup(struct) ==
    RpgLoop(struct.gram, struct.ops, <<ToRecip(struct.gram, R)>>)

\* ---------------------------------------------------- _is_permutation_eq
\* str(a) of a numpy point with coordinates in {0.0, 0.5}: numpy pads every
\* entry to the width of the widest one, so 0.0 prints as "0." in a point
\* without a 0.5 and as "0. " in a point with one.
Str(p) ==
    LET wide == \E i \in Idx : p[i] = 1
    IN  [i \in Idx |-> IF p[i] = 1 THEN "0.5"
                       ELSE IF wide THEN "0. " ELSE "0."]

\* the loop "for b in B" over the dictionary count
RECURSIVE PermLoop(_, _)
PermLoop(count, B) ==
    IF B = <<>> THEN TRUE
    ELSE LET key == Str(Head(B))
         IN  IF key \in DOMAIN count
             THEN IF count[key] = 0 THEN FALSE
                  ELSE PermLoop([count EXCEPT ![key] = count[key] - 1], Tail(B))
             ELSE FALSE

_is_permutation_eq(A, B) ==
    LET count == [key \in { Str(A[k]) : k \in 1..Len(A) } |-> 1]
    IN  PermLoop(count, B)

\* -------------------------------------------------------- get_equiv_planes
symbols == <<"x", "y", "z">>

\* the keys of planes and plane_equiv, in insertion order
PlaneNames == <<"kx_0", "kx_1", "ky_0", "ky_1", "kz_0", "kz_1">>

PlaneSet == { PlaneNames[k] : k \in 1..Len(PlaneNames) }

\* list(itertools.product((0.0, 0.5), repeat=3)), in halves
trim_pts == << <<0, 0, 0>>, <<0, 0, 1>>, <<0, 1, 0>>, <<0, 1, 1>>,
               <<1, 0, 0>>, <<1, 0, 1>>, <<1, 1, 0>>, <<1, 1, 1>> >>

\* a variant of PlanePts with plane_num / 2 as an integer division, which is 0
PlanePtsIntDiv(coord, plane_num) ==
    SelectSeq(trim_pts, LAMBDA pt : pt[coord] = 0)

\* [pt for pt in trim_pts if pt[coord] == float(plane_num) / 2.0]
PlanePts(coord, plane_num) ==
    SelectSeq(trim_pts, LAMBDA pt : pt[coord] = plane_num)

\* planes["k%s_%s" % (symbols[coord], str(plane_num))]; coord is 1..3 here
planes ==
    [name \in PlaneSet |->
        LET k == CHOOSE i \in 1..Len(PlaneNames) : PlaneNames[i] = name
        IN  PlanePts(((k - 1) \div 2) + 1, (k - 1) % 2)]

\* [np.dot(op, pt) % 1.0 for pt in planes[plane]]
TransPts(op, plane) ==
    [k \in 1..Len(planes[plane]) |->
        LET q == DotPt(op, planes[plane][k])
        IN  <<q[1] % 2, q[2] % 2, q[3] % 2>>]

\* a variant of MatchPlanes that also compares a plane with itself
MatchPlanesSelf(op, plane, found) ==
    LET RECURSIVE Others(_, _)
        Others(k, acc) ==
            IF k > Len(PlaneNames) THEN acc
            ELSE LET other_plane == PlaneNames[k]
                     check_eq == _is_permutation_eq(planes[other_plane],
                                                    TransPts(op, plane))
                 IN  Others(k + 1,
                            IF check_eq /\ ~Contains(acc, other_plane)
                            THEN Append(acc, other_plane) ELSE acc)
    IN  Others(1, found)

\* the loop "for other_plane in planes.keys()" for one plane and one op
MatchPlanes(op, plane, found) ==
    LET RECURSIVE Others(_, _)
        Others(k, acc) ==
            IF k > Len(PlaneNames) THEN acc
            ELSE LET other_plane == PlaneNames[k]
                     check_eq == other_plane # plane
                                 /\ _is_permutation_eq(planes[other_plane],
                                                       TransPts(op, plane))
                 IN  Others(k + 1,
                            IF check_eq /\ ~Contains(acc, other_plane)
                            THEN Append(acc, other_plane) ELSE acc)
    IN  Others(1, found)

\* the loop "for op in rpg_ops" for one plane
RECURSIVE OpsLoop(_, _, _)
OpsLoop(rpg_ops, plane, found) ==
    IF rpg_ops = <<>> THEN found
    ELSE LET next == MatchPlanes(Head(rpg_ops), plane, found)
             rest == Tail(rpg_ops)
         \* (the test is always true: it makes TLC evaluate next before the call)
         IN  IF Len(next) + Len(rest) >= 0 THEN OpsLoop(rest, plane, next) ELSE found

\* plane_equiv, from the reciprocal point group
EquivPlanesOf(rpg_ops) ==
    [plane \in PlaneSet |-> OpsLoop(rpg_ops, plane, <<>>)]

\* --------------------------------------------------------------- config
\* VASP_CMD, DB_FILE, STABILITY_CHECK, ADD_WF_METADATA of atomate.vasp.config:
\* the process-wide defaults
DefaultConfig ==
    [VASP_CMD |-> ">>vasp_cmd<<", DB_FILE |-> ">>db_file<<",
     STABILITY_CHECK |-> FALSE, ADD_WF_METADATA |-> TRUE]

ConfigKeys == DOMAIN DefaultConfig

\* every value of every recognized key
FullConfigs ==
    [VASP_CMD : {"vasp_ncl"}, DB_FILE : {"db.json"},
     STABILITY_CHECK : BOOLEAN, ADD_WF_METADATA : BOOLEAN]

\* every mapping a caller may pass as c: any subset of the recognized keys
ConfigMaps ==
    { [k \in K |-> full[k]] : full \in FullConfigs, K \in SUBSET ConfigKeys }

\* the argument c of get_wf: None (the default) or a mapping
ConfigArgs ==
    { [isNone |-> TRUE, map |-> <<>>] }
        \cup { [isNone |-> FALSE, map |-> m] : m \in ConfigMaps }

\* c.get(key, default)
Get(c, key, default) == IF key \in DOMAIN c THEN c[key] ELSE default

\* c = c or {"VASP_CMD": VASP_CMD, "DB_FILE": DB_FILE}: None and the empty
\* mapping are both false
OrDefault(arg) ==
    IF arg.isNone \/ DOMAIN arg.map = {}
    THEN [k \in {"VASP_CMD", "DB_FILE"} |-> DefaultConfig[k]]
    ELSE arg.map

\* ------------------------------------------------------------- job nodes
NoArgs == [symmetry_reduction |-> FALSE, equiv_planes |-> <<>>]

\* a Firework; parents holds positions in the list fws
Node(kind, name, parents, surface, vasp_cmd, db_file, args) ==
    [kind |-> kind, name |-> name, parents |-> parents, surface |-> surface,
     vasp_cmd |-> vasp_cmd, db_file |-> db_file, args |-> args,
     incar |-> <<>>, wf_meta |-> FALSE, tags |-> {}]

\* OptimizeFW(self.structure, vasp_input_set=vis, vasp_cmd=..., db_file=...)
OptimizeFW(vasp_cmd, db_file) ==
    Node("relax", "structure optimization", {}, "", vasp_cmd, db_file, NoArgs)

\* StaticFW(..., parents=[opt_fw])
StaticFW(vasp_cmd, db_file, opt_fw) ==
    Node("static", "static", {opt_fw}, "", vasp_cmd, db_file, NoArgs)

\* Z2PackFW(parents=[static_fw], surface=surface, name="z2pack", ...)
Z2PackFW(static_fw, surface, vasp_cmd, db_file) ==
    Node("z2pack", "z2pack", {static_fw}, surface, vasp_cmd, db_file, NoArgs)

\* a variant of InvariantFW that waits for the last surface job only
InvariantFWLast(z2pack_fws, symred, equiv, db_file) ==
    Node("invariant", "invariant",
         { k \in z2pack_fws : \A j \in z2pack_fws : j <= k }, "", "", db_file,
         [symmetry_reduction |-> symred, equiv_planes |-> equiv])

\* InvariantFW(parents=z2pack_fws, symmetry_reduction=..., equiv_planes=...)
InvariantFW(z2pack_fws, symred, equiv, db_file) ==
    Node("invariant", "invariant", z2pack_fws, "", "", db_file,
         [symmetry_reduction |-> symred, equiv_planes |-> equiv])

\* ------------------------------------------------- the surface selection
\* a variant of SelectLoop that skips a plane only when every selected surface
\* is equivalent to it
RECURSIVE SelectLoopAll(_, _, _)
SelectLoopAll(equiv, k, surfaces) ==
    IF k > Len(PlaneNames) THEN surfaces
    ELSE LET add_surface == PlaneNames[k]
             mark == \E i \in 1..Len(surfaces) :
                        ~Contains(equiv[add_surface], surfaces[i])
         IN  SelectLoopAll(equiv, k + 1,
                           IF mark /\ ~Contains(surfaces, add_surface)
                           THEN Append(surfaces, add_surface) ELSE surfaces)

\* the loop "for add_surface in equiv_planes.keys()", from the k-th key on
RECURSIVE SelectLoop(_, _, _)
SelectLoop(equiv, k, surfaces) ==
    IF k > Len(PlaneNames) THEN surfaces
    ELSE LET add_surface == PlaneNames[k]
             mark == \A i \in 1..Len(surfaces) :
                        ~Contains(equiv[add_surface], surfaces[i])
         IN  SelectLoop(equiv, k + 1,
                        IF mark /\ ~Contains(surfaces, add_surface)
                        THEN Append(surfaces, add_surface) ELSE surfaces)

\* a variant of Select that reduces by symmetry whatever the flag says
SelectAlways(equiv, symred) == SelectLoop(equiv, 1, <<"kx_0", "kx_1">>)

\* the surfaces get_wf computes
Select(equiv, symred) ==
    IF symred
    THEN SelectLoop(equiv, 1, <<"kx_0", "kx_1">>)
    ELSE <<"kx_0", "kx_1", "ky_0", "ky_1", "kz_0", "kz_1">>

\* ------------------------------------------------------------- powerups
\* add_modify_incar(wf, modify_incar_params={"incar_update": update},
\* fw_name_constraint=constraint): the update reaches every Firework whose name
\* holds the constraint ("" is no constraint); a later update overwrites an
\* earlier one key by key
add_modify_incar(nodes, update, constraint) ==
    [k \in DOMAIN nodes |->
        IF constraint = "" \/ nodes[k].name = constraint
        THEN [nodes[k] EXCEPT !.incar = update @@ @]
        ELSE nodes[k]]

\* np.any([dim == 2 for dim in [larsen_dim, cheon_dim, gorai_dim]])
IsLayered(dims) == \E m \in DOMAIN dims : dims[m] = 2

VdwRelaxUpdate ==
    [IVDW |-> "11", EDIFFG |-> "0.005", IBRION |-> "2", NSW |-> "100"]

RelaxUpdate == [EDIFFG |-> "0.005", IBRION |-> "2", NSW |-> "100"]

\* a variant of DimensionalityOverrides without the van-der-Waals key on the
\* relaxation
DimensionalityOverridesNoVdw(nodes, dims) ==
    add_modify_incar(nodes, RelaxUpdate, "structure optimization")

\* the branch on the dimensionality of the structure
DimensionalityOverrides(nodes, dims) ==
    IF IsLayered(dims)
    THEN add_modify_incar(
             add_modify_incar(
                 add_modify_incar(nodes, VdwRelaxUpdate, "structure optimization"),
                 [IVDW |-> "11"], "static"),
             [IVDW |-> "11"], "z2pack")
    ELSE add_modify_incar(nodes, RelaxUpdate, "structure optimization")

\* the overrides applied whatever the dimensionality
CommonOverrides(nodes) ==
    add_modify_incar(
        add_modify_incar(nodes,
            [ADDGRID |-> ".TRUE.", LASPH |-> ".TRUE.", GGA |-> "PS", NCORE |-> "1"],
            ""),
        [PREC |-> "Accurate"], "static")

\* add_additional_fields_to_taskdocs(wf, {"wf_meta": self.wf_meta})
add_additional_fields_to_taskdocs(nodes) ==
    [k \in DOMAIN nodes |-> [nodes[k] EXCEPT !.wf_meta = TRUE]]

\* add_tags(wf, [tag])
add_tags(nodes, tag) ==
    [k \in DOMAIN nodes |-> [nodes[k] EXCEPT !.tags = @ \cup {tag}]]

\* ------------------------------------------------------------ get_wf
\* a variant of BeginNodes that looks DB_FILE up only for the second Firework
BeginNodesLate(c) ==
    IF "VASP_CMD" \notin DOMAIN c
    THEN [err |-> "KeyError", fws |-> <<>>]
    ELSE IF "DB_FILE" \notin DOMAIN c
    THEN [err |-> "KeyError",
          fws |-> << OptimizeFW(c["VASP_CMD"], DefaultConfig["DB_FILE"]) >>]
    ELSE [err |-> "",
          fws |-> << OptimizeFW(c["VASP_CMD"], c["DB_FILE"]),
                     StaticFW(c["VASP_CMD"], c["DB_FILE"], 1) >>]

\* lines 293-314, up to the first two Fireworks.  The arguments of OptimizeFW
\* are evaluated before the call: c["VASP_CMD"], then c["DB_FILE"]; a missing
\* key raises KeyError there, with no Firework built yet.
BeginNodes(c) ==
    IF "VASP_CMD" \notin DOMAIN c \/ "DB_FILE" \notin DOMAIN c
    THEN [err |-> "KeyError", fws |-> <<>>]
    ELSE [err |-> "",
          fws |-> << OptimizeFW(c["VASP_CMD"], c["DB_FILE"]),
                     StaticFW(c["VASP_CMD"], c["DB_FILE"], 1) >>]

\* z2pack_fws and analysis_fw appended to [opt_fw, static_fw] (lines 334-358)
SurfaceNodes(nodes, c, surfs, symred, equiv) ==
    LET static_fw == Len(nodes)
        z2pack_fws == [k \in 1..Len(surfs) |->
                          Z2PackFW(static_fw, surfs[k], c["VASP_CMD"], c["DB_FILE"])]
        ids == { static_fw + k : k \in 1..Len(surfs) }
    IN  nodes \o z2pack_fws \o <<InvariantFW(ids, symred, equiv, c["DB_FILE"])>>

\* self.uuid = str(uuid4())
Uuid == "uuid4"

NoWorkflow ==
    [built |-> FALSE, name |-> <<>>, common_powerups |-> FALSE,
     stability_check |-> FALSE, wf_metadata |-> FALSE]

DimMethods == {"larsen_dim", "cheon_dim", "gorai_dim"}

VARIABLES
    structure,           \* self.structure
    symmetry_reduction,  \* self.symmetry_reduction
    pc,                  \* where get_wf stands
    arg,                 \* the argument c of get_wf
    c,                   \* the local c after "c = c or {...}"
    err,                 \* the exception get_wf raised, "" for none
    fws,                 \* the Fireworks built so far
    rpg_ops,             \* rpg_ops of get_equiv_planes
    equiv_planes,        \* equiv_planes of get_wf
    surfaces,            \* surfaces of get_wf
    dim_data,            \* the three classifications of StructureDimensionality
    wf,                  \* the Workflow
    perm_A,              \* A of a call of _is_permutation_eq on its own
    perm_B,              \* B of that call
    check_eq             \* what that call returned

vars == <<structure, symmetry_reduction, pc, arg, c, err, fws, rpg_ops,
          equiv_planes, surfaces, dim_data, wf, perm_A, perm_B, check_eq>>

\* no call of _is_permutation_eq on its own is under way
NoPermCall == perm_A = <<>> /\ perm_B = <<>> /\ check_eq = FALSE

\* Z2PackWF(structure, symmetry_reduction) has been constructed
Init ==
    /\ structure \in Structures
    /\ symmetry_reduction \in BOOLEAN
    /\ pc = "start"
    /\ arg = [isNone |-> TRUE, map |-> <<>>]
    /\ c = <<>>
    /\ err = ""
    /\ fws = <<>>
    /\ rpg_ops = <<>>
    /\ equiv_planes = <<>>
    /\ surfaces = <<>>
    /\ dim_data = <<>>
    /\ wf = NoWorkflow
    /\ NoPermCall

\* get_wf(c) is called: lines 293-314
GetWfBegin(a) ==
    /\ pc = "start"
    /\ arg' = a
    /\ c' = OrDefault(a)
    /\ err' = BeginNodes(OrDefault(a)).err
    /\ fws' = BeginNodes(OrDefault(a)).fws
    /\ pc' = IF BeginNodes(OrDefault(a)).err = "" THEN "planes" ELSE "error"
    /\ UNCHANGED <<perm_A, perm_B, check_eq, structure, symmetry_reduction, rpg_ops, equiv_planes,
                   surfaces, dim_data, wf>>

\* equiv_planes = self.get_equiv_planes(): line 320, lines 244-282
GetEquivPlanes ==
    /\ pc = "planes"
    /\ rpg_ops' = ReciprocalPointGroup(structure)
    /\ equiv_planes' = EquivPlanesOf(ReciprocalPointGroup(structure))
    /\ pc' = "select"
    /\ UNCHANGED <<perm_A, perm_B, check_eq, structure, symmetry_reduction, arg, c, err, fws, surfaces,
                   dim_data, wf>>

\* lines 319-332
SelectSurfaces ==
    /\ pc = "select"
    /\ surfaces' = Select(equiv_planes, symmetry_reduction)
    /\ pc' = "build"
    /\ UNCHANGED <<perm_A, perm_B, check_eq, structure, symmetry_reduction, arg, c, err, fws, rpg_ops,
                   equiv_planes, dim_data, wf>>

\* lines 334-360
BuildSurfaceJobs ==
    /\ pc = "build"
    /\ fws' = SurfaceNodes(fws, c, surfaces, symmetry_reduction, equiv_planes)
    /\ wf' = [wf EXCEPT !.built = TRUE]
    /\ pc' = "powerups"
    /\ UNCHANGED <<perm_A, perm_B, check_eq, structure, symmetry_reduction, arg, c, err, rpg_ops,
                   equiv_planes, surfaces, dim_data>>

\* lines 361-439; dims is what StructureDimensionality(self.structure) finds
ApplyPowerups(dims) ==
    /\ pc = "powerups"
    /\ dim_data' = dims
    /\ fws' = add_tags(
                  CommonOverrides(
                      DimensionalityOverrides(
                          add_additional_fields_to_taskdocs(fws), dims)),
                  <<"z2pack: ", Uuid>>)
    /\ wf' = [wf EXCEPT
                !.common_powerups = TRUE,
                !.name = <<structure.name, "Z2Pack">>,
                !.stability_check =
                    Get(c, "STABILITY_CHECK", DefaultConfig["STABILITY_CHECK"]),
                !.wf_metadata =
                    Get(c, "ADD_WF_METADATA", DefaultConfig["ADD_WF_METADATA"])]
    /\ pc' = "done"
    /\ UNCHANGED <<perm_A, perm_B, check_eq, structure, symmetry_reduction, arg, c, err, rpg_ops,
                   equiv_planes, surfaces>>

Next ==
    \/ \E a \in ConfigArgs : GetWfBegin(a)
    \/ GetEquivPlanes
    \/ SelectSurfaces
    \/ BuildSurfaceJobs
    \/ \E dims \in [DimMethods -> 0..MaxDim] : ApplyPowerups(dims)

Spec == Init /\ [][Next]_vars

\* ------------------------------ the selection on its own, over any map
\* subsets of S with at most n elements
RECURSIVE SubsetsUpTo(_, _)
SubsetsUpTo(S, n) ==
    IF n = 0 THEN {{}}
    ELSE LET prev == SubsetsUpTo(S, n - 1)
         IN  prev \cup { T \cup {x} : T \in prev, x \in S }

PlanePairs == { pr \in PlaneSet \X PlaneSet : pr[1] # pr[2] }

\* equivalence maps of the shape get_equiv_planes returns (every plane a key,
\* no plane in its own list, no plane twice), symmetric or not
StubMaps ==
    { [plane \in PlaneSet |->
          SelectSeq(PlaneNames, LAMBDA other : <<plane, other>> \in P)] :
      P \in SubsetsUpTo(PlanePairs, MaxEntries) }

\* get_wf() stands at line 320 and get_equiv_planes is replaced by a double
\* that returns the map under test
InitSelect ==
    /\ structure \in { st \in Structures : st.name = "1" }
    /\ symmetry_reduction \in BOOLEAN
    /\ pc = "select"
    /\ arg = [isNone |-> TRUE, map |-> <<>>]
    /\ c = OrDefault(arg)
    /\ err = ""
    /\ fws = BeginNodes(c).fws
    /\ rpg_ops = <<>>
    /\ equiv_planes \in StubMaps
    /\ surfaces = <<>>
    /\ dim_data = <<>>
    /\ wf = NoWorkflow
    /\ NoPermCall

NextSelect ==
    \/ SelectSurfaces
    \/ BuildSurfaceJobs

SpecSelect == InitSelect /\ [][NextSelect]_vars

\* ------------------------------------------------------------ properties
SeqSet(list) == { list[k] : k \in 1..Len(list) }

\* get_equiv_planes has returned
PlanesKnown == pc \in {"select", "build", "powerups", "done"}

\* the surfaces are chosen
SurfacesKnown == pc \in {"build", "powerups", "done"}

\* the reciprocal point group is the full cubic point group: 48 operations
IsFullCubic(rpg) == Cardinality(SeqSet(rpg)) = Cardinality(CubicOps)

\* the reciprocal point group holds the identity and the inversion only
IsTrivialGroup(rpg) == SeqSet(rpg) = {Eye, R}

\* 0 for kx_0, ky_0, kz_0 and 1 for kx_1, ky_1, kz_1
Offset(plane) ==
    ((CHOOSE k \in 1..Len(PlaneNames) : PlaneNames[k] = plane) - 1) % 2

C3_TrivialGroupKeepsAll ==
    /\ (PlanesKnown /\ IsTrivialGroup(rpg_ops)) =>
           \A plane \in PlaneSet : equiv_planes[plane] = <<>>
    /\ (SurfacesKnown /\ IsTrivialGroup(rpg_ops) /\ symmetry_reduction) =>
           surfaces = PlaneNames

C3_Witness ==
    /\ pc = "build"
    /\ IsTrivialGroup(rpg_ops)
    /\ symmetry_reduction
    /\ Len(surfaces) = Len(PlaneNames)

\* the positions in fws of the Fireworks of one kind
OfKind(kind) == { k \in DOMAIN fws : fws[k].kind = kind }

\* the surfaces of the surface jobs, in the order of fws
JobSurfaces ==
    LET jobs == SelectSeq(fws, LAMBDA fw : fw.kind = "z2pack")
    IN  [k \in 1..Len(jobs) |-> jobs[k].surface]

\* C4: with symmetry_reduction unset, whatever the equivalence map holds, all
\* six surfaces are chosen and the workflow gets one surface job for each.
C4_NoReductionKeepsAll ==
    /\ (SurfacesKnown /\ ~symmetry_reduction) => surfaces = PlaneNames
    /\ (pc \in {"powerups", "done"} /\ ~symmetry_reduction) =>
           JobSurfaces = PlaneNames

C4_Witness ==
    /\ pc = "powerups"
    /\ ~symmetry_reduction
    /\ Contains(equiv_planes["ky_0"], "kx_0")
    /\ Cardinality(OfKind("z2pack")) = Len(PlaneNames)

\* C5: whatever operations the symmetry analysis lists (the identity among
\* them), the reciprocal point group holds the identity and the inversion.
C5_IdentityAndInversion ==
    PlanesKnown => (Contains(rpg_ops, Eye) /\ Contains(rpg_ops, R))

C5_Witness ==
    /\ pc = "select"
    /\ ~Contains(structure.ops, R)
    /\ Contains(rpg_ops, R)
    /\ Contains(rpg_ops, Eye)

\* the Fireworks a Firework waits for, directly or not
RECURSIVE AncestorsN(_, _)
AncestorsN(S, n) ==
    IF n = 0 THEN S
    ELSE AncestorsN(S \cup UNION { fws[k].parents : k \in S }, n - 1)

Ancestors(k) == AncestorsN(fws[k].parents, Len(fws))

Acyclic ==
    \A k \in DOMAIN fws : fws[k].parents \subseteq DOMAIN fws /\ k \notin Ancestors(k)

\* C6: in the workflow the relaxation has no parents, the only parent of the
\* static calculation is the relaxation, the only parent of every surface job is
\* the static calculation, the parents of the invariant job are exactly the
\* surface jobs, and no Firework waits for itself.
C6_GraphShape ==
    pc \in {"powerups", "done"} =>
        /\ \E r \in DOMAIN fws, st \in DOMAIN fws, an \in DOMAIN fws :
              /\ OfKind("relax") = {r}
              /\ OfKind("static") = {st}
              /\ OfKind("invariant") = {an}
              /\ fws[r].parents = {}
              /\ fws[st].parents = {r}
              /\ \A z \in OfKind("z2pack") : fws[z].parents = {st}
              /\ fws[an].parents = OfKind("z2pack")
        /\ Cardinality(OfKind("z2pack")) = Len(surfaces)
        /\ Acyclic

C6_Witness ==
    /\ pc = "done"
    /\ Cardinality(OfKind("z2pack")) > Len(<<"kx_0", "kx_1">>)
    /\ Cardinality(OfKind("z2pack")) < Len(PlaneNames)

\* get_wf has been called with a mapping without VASP_CMD or without DB_FILE
LacksKey ==
    /\ pc # "start"
    /\ ~arg.isNone
    /\ ("VASP_CMD" \notin DOMAIN arg.map \/ "DB_FILE" \notin DOMAIN arg.map)

C8_UnsetKeysFallBack ==
    pc # "start" =>
        /\ pc # "error"
        /\ \A k \in DOMAIN fws :
              /\ fws[k].db_file = Get(arg.map, "DB_FILE", DefaultConfig["DB_FILE"])
              /\ fws[k].kind # "invariant" =>
                    fws[k].vasp_cmd =
                        Get(arg.map, "VASP_CMD", DefaultConfig["VASP_CMD"])
        /\ pc = "done" =>
              /\ wf.stability_check =
                    Get(arg.map, "STABILITY_CHECK", DefaultConfig["STABILITY_CHECK"])
              /\ wf.wf_metadata =
                    Get(arg.map, "ADD_WF_METADATA", DefaultConfig["ADD_WF_METADATA"])

\* the parameter bag of the relaxation
RelaxIncar == fws[CHOOSE k \in DOMAIN fws : fws[k].kind = "relax"].incar

\* C9: the relaxation carries IVDW exactly when one of the three
\* dimensionality classifications is 2, and carries EDIFFG, IBRION and NSW
\* either way.
C9_VdwIffLayered ==
    pc = "done" =>
        /\ "IVDW" \in DOMAIN RelaxIncar <=> (\E m \in DimMethods : dim_data[m] = 2)
        /\ {"EDIFFG", "IBRION", "NSW"} \subseteq DOMAIN RelaxIncar
        /\ RelaxIncar["EDIFFG"] = "0.005"
        /\ RelaxIncar["IBRION"] = "2"
        /\ RelaxIncar["NSW"] = "100"

C9_Witness ==
    /\ pc = "done"
    /\ dim_data["cheon_dim"] = 2
    /\ dim_data["larsen_dim"] # 2
    /\ "IVDW" \in DOMAIN RelaxIncar

\* A and B are equivalent by the map, read in either direction
EitherWay(A, B) ==
    Contains(equiv_planes[A], B) \/ Contains(equiv_planes[B], A)

PlaneIndex(plane) == CHOOSE k \in 1..Len(PlaneNames) : PlaneNames[k] = plane

Seeds == {"kx_0", "kx_1"}

PointLists ==
    UNION { [1..n -> SeqSet(trim_pts)] : n \in 0..MaxLen }

\* Z2PackWF._is_permutation_eq(A, B) is about to be called on two point lists
InitPerm ==
    /\ structure \in { st \in Structures : st.name = "1" }
    /\ symmetry_reduction = TRUE
    /\ pc = "perm_call"
    /\ arg = [isNone |-> TRUE, map |-> <<>>]
    /\ c = <<>>
    /\ err = ""
    /\ fws = <<>>
    /\ rpg_ops = <<>>
    /\ equiv_planes = <<>>
    /\ surfaces = <<>>
    /\ dim_data = <<>>
    /\ wf = NoWorkflow
    /\ perm_A \in PointLists
    /\ perm_B \in PointLists
    /\ check_eq = FALSE

\* check_eq = Z2PackWF._is_permutation_eq(A, B): lines 221-242
IsPermutationEqCall ==
    /\ pc = "perm_call"
    /\ check_eq' = _is_permutation_eq(perm_A, perm_B)
    /\ pc' = "perm_done"
    /\ UNCHANGED <<perm_A, perm_B, structure, symmetry_reduction, arg, c, err,
                   fws, rpg_ops, equiv_planes, surfaces, dim_data, wf>>

NextPerm == IsPermutationEqCall

SpecPerm == InitPerm /\ [][NextPerm]_vars

\* how often point p stands in list
Occurrences(list, p) == Cardinality({ k \in 1..Len(list) : list[k] = p })

\* A and B hold the same points, each as often in one as in the other
MultisetEq(A, B) ==
    \A p \in SeqSet(A) \cup SeqSet(B) : Occurrences(A, p) = Occurrences(B, p)

\* C11: for any two point lists, of any lengths and with or without repeated
\* points, _is_permutation_eq returns true exactly when the two lists are equal
\* as multisets.
C11_MultisetEquality ==
    pc = "perm_done" => (check_eq <=> MultisetEq(perm_A, perm_B))

====
